---------------------------- MODULE Spec2Model ----------------------------
(***************************************************************************)
(* A model of sap_to_m3u.py: the SAP packet decoder, the SDP parser, the   *)
(* stream registry kept by collect_announcements, the playlist writer      *)
(* generate_m3u and the control flow of main.                              *)
(*                                                                         *)
(* Byte strings and text strings are sequences of integers (byte values,   *)
(* respectively Unicode code points).  A Python dict is a record whose     *)
(* DOMAIN is the set of its keys, so a session without 'stream_url' is a   *)
(* record without that field.  Python's None is the record None.           *)
(***************************************************************************)
EXTENDS Integers, Sequences, FiniteSets, TLC

VARIABLES
    pc,            \* position of main: "main", "while", "recvfrom", "generate", "done"
    sock,          \* self.sock: "none" (never created), "open", "closed"
    streams,       \* self.streams: the dict, as the sequence of its items in insertion order
    packet_count,  \* self.packet_count
    elapsed,       \* time.time() - start_time, in seconds
    data,          \* the datagram last returned by recvfrom (local of the loop)
    session_info,  \* the value last returned by parse_sap_packet / parse_sdp
    recv,          \* the current recvfrom call: "none" (not called yet), "pending",
                   \* "data", "timeout", "error"
    m3u,           \* the call of generate_m3u: "not_called", "no_streams", "written", "failed"
    outfile,       \* the text written to the output file; <<>> while nothing is written
    outcome        \* how main ended: "running", "ok", "KeyboardInterrupt",
                   \* "Exception:setup_socket", "Exception:open"

vars ==
    <<pc, sock, streams, packet_count, elapsed, data, session_info, recv, m3u, outfile,
      outcome>>

None == [none |-> TRUE]

---------------------------------------------------------------------------
(* String literals of the source, as code points.                          *)

Str_s == <<115, 61>>  \* 's='
Str_i == <<105, 61>>  \* 'i='
Str_u == <<117, 61>>  \* 'u='
Str_c == <<99, 61>>  \* 'c='
Str_m == <<109, 61>>  \* 'm='
Str_plgroup == <<97, 61, 120, 45, 112, 108, 103, 114, 111, 117, 112, 58>>  \* 'a=x-plgroup:'
Str_rtp == <<114, 116, 112, 58, 47, 47>>  \* 'rtp://'
Str_colon == <<58>>  \* ':'
Str_slash == <<47>>  \* '/'
Str_underscore == <<95>>  \* '_'
Str_application_sdp == <<97, 112, 112, 108, 105, 99, 97, 116, 105, 111, 110, 47, 115, 100, 112>>  \* 'application/sdp'
Str_EXTM3U == <<35, 69, 88, 84, 77, 51, 85, 10>>  \* '#EXTM3U\n'
Str_EXTGRP == <<35, 69, 88, 84, 71, 82, 80, 58>>  \* '#EXTGRP:'
Str_Unknown == <<85, 110, 107, 110, 111, 119, 110, 32, 83, 116, 114, 101, 97, 109>>  \* 'Unknown Stream'
Str_General == <<71, 101, 110, 101, 114, 97, 108>>  \* 'General'
Str_EXTINF == <<35, 69, 88, 84, 73, 78, 70, 58, 45, 49, 32, 116, 118, 103, 45, 105, 100, 61, 34>>  \* '#EXTINF:-1 tvg-id="'
Str_tvg_name == <<34, 32, 116, 118, 103, 45, 110, 97, 109, 101, 61, 34>>  \* '" tvg-name="'
Str_group_title == <<34, 32, 103, 114, 111, 117, 112, 45, 116, 105, 116, 108, 101, 61, 34>>  \* '" group-title="'
Str_quote == <<34>>  \* '"'
Str_comma == <<44>>  \* ','
Str_dash == <<32, 45, 32>>  \* ' - '
Str_nl == <<10>>  \* '\n'

---------------------------------------------------------------------------
(* Python's str and bytes operations used by the source.                   *)

\* The characters str.isspace() accepts: what str.strip() and str.split() cut at.
Whitespace ==
    (9..13) \cup (28..32) \cup {133, 160, 5760} \cup (8192..8202)
        \cup {8232, 8233, 8239, 8287, 12288}

\* s[n:]
Drop(s, n) == SubSeq(s, n + 1, Len(s))

\* s.startswith(p)
StartsWith(s, p) == Len(s) >= Len(p) /\ SubSeq(s, 1, Len(p)) = p

\* s.find(c) for a one-element c: the 0-based index of its first occurrence, or -1
Find(s, c) ==
    IF \E i \in 1..Len(s) : s[i] = c
    THEN (CHOOSE i \in 1..Len(s) : s[i] = c /\ \A j \in 1..(i - 1) : s[j] # c) - 1
    ELSE -1

RECURSIVE LStrip(_)
LStrip(s) == IF s # <<>> /\ Head(s) \in Whitespace THEN LStrip(Tail(s)) ELSE s

RECURSIVE RStrip(_)
RStrip(s) ==
    IF s # <<>> /\ s[Len(s)] \in Whitespace THEN RStrip(SubSeq(s, 1, Len(s) - 1)) ELSE s

\* s.strip()
Strip(s) == RStrip(LStrip(s))

\* s.split(c) for a one-character separator c: the pieces between the separators,
\* empty pieces included.
RECURSIVE SplitOn(_, _)
SplitOn(s, c) ==
    LET i == Find(s, c)
    IN IF i = -1 THEN <<s>>
       ELSE <<SubSeq(s, 1, i)>> \o SplitOn(Drop(s, i + 1), c)

\* The length of the first run of non-whitespace characters of s.
RECURSIVE TokenLen(_)
TokenLen(s) == IF s = <<>> \/ Head(s) \in Whitespace THEN 0 ELSE 1 + TokenLen(Tail(s))

\* s.split(): the maximal runs of non-whitespace characters.
RECURSIVE SplitWs(_)
SplitWs(s) ==
    LET t == LStrip(s)
    IN IF t = <<>> THEN <<>>
       ELSE <<SubSeq(t, 1, TokenLen(t))>> \o SplitWs(Drop(t, TokenLen(t)))

\* s.replace(old, new): every non-overlapping occurrence of old, from the left.
RECURSIVE Replace(_, _, _)
Replace(s, old, new) ==
    IF s = <<>> THEN <<>>
    ELSE IF StartsWith(s, old) THEN new \o Replace(Drop(s, Len(old)), old, new)
    ELSE <<Head(s)>> \o Replace(Tail(s), old, new)

\* a & b on non-negative integers
RECURSIVE BitAnd(_, _)
BitAnd(a, b) ==
    IF a = 0 \/ b = 0 THEN 0
    ELSE (a % 2) * (b % 2) + 2 * BitAnd(a \div 2, b \div 2)

\* a >> n
ShiftRight(a, n) == a \div (2 ^ n)

\* bytes.decode('ascii', errors='ignore'): a byte above 0x7F is no ASCII character
\* and the 'ignore' handler drops it.
decode_ascii_ignore(bytes) == SelectSeq(bytes, LAMBDA b : b < 128)

IsCont(b) == b >= 128 /\ b <= 191

\* The length of the well-formed UTF-8 sequence that starts at s[i], or 0.
Utf8Len(s, i) ==
    LET b == s[i]
        n == Len(s)
    IN IF b < 128 THEN 1
       ELSE IF b >= 194 /\ b <= 223
         THEN IF i + 1 <= n /\ IsCont(s[i + 1]) THEN 2 ELSE 0
       ELSE IF b >= 224 /\ b <= 239
         THEN IF /\ i + 2 <= n
                 /\ IsCont(s[i + 1]) /\ IsCont(s[i + 2])
                 /\ (b = 224 => s[i + 1] >= 160)
                 /\ (b = 237 => s[i + 1] <= 159)
              THEN 3 ELSE 0
       ELSE IF b >= 240 /\ b <= 244
         THEN IF /\ i + 3 <= n
                 /\ IsCont(s[i + 1]) /\ IsCont(s[i + 2]) /\ IsCont(s[i + 3])
                 /\ (b = 240 => s[i + 1] >= 144)
                 /\ (b = 244 => s[i + 1] <= 143)
              THEN 4 ELSE 0
       ELSE 0

\* The code point of the well-formed sequence of length k at s[i].
Utf8CodePoint(s, i, k) ==
    CASE k = 1 -> s[i]
      [] k = 2 -> (s[i] - 192) * 64 + (s[i + 1] - 128)
      [] k = 3 -> (s[i] - 224) * 4096 + (s[i + 1] - 128) * 64 + (s[i + 2] - 128)
      [] k = 4 -> (s[i] - 240) * 262144 + (s[i + 1] - 128) * 4096
                      + (s[i + 2] - 128) * 64 + (s[i + 3] - 128)

\* bytes.decode('utf-8', errors='ignore') from position i on: a byte that starts
\* no well-formed sequence is dropped and decoding goes on at the next byte.
RECURSIVE Utf8From(_, _)
Utf8From(s, i) ==
    IF i > Len(s) THEN <<>>
    ELSE LET k == Utf8Len(s, i)
         IN IF k = 0 THEN Utf8From(s, i + 1)
            ELSE <<Utf8CodePoint(s, i, k)>> \o Utf8From(s, i + k)

decode_utf8_ignore(bytes) == Utf8From(bytes, 1)

---------------------------------------------------------------------------
(* parse_sdp                                                               *)

\* The accumulator parse_sdp starts from; now is datetime.now().
NewSession(now) ==
    [name |-> <<>>, description |-> <<>>, url |-> <<>>, connection |-> <<>>,
     media_port |-> <<>>, media_type |-> <<>>, group |-> <<>>, timestamp |-> now]

\* One pass of the loop over the lines.
parse_line(info, rawline) ==
    LET line == Strip(rawline)
    IN IF StartsWith(line, Str_s) THEN [info EXCEPT !.name = Drop(line, 2)]
       ELSE IF StartsWith(line, Str_i) THEN [info EXCEPT !.description = Drop(line, 2)]
       ELSE IF StartsWith(line, Str_u) THEN [info EXCEPT !.url = Drop(line, 2)]
       ELSE IF StartsWith(line, Str_c) THEN [info EXCEPT !.connection = Drop(line, 2)]
       ELSE IF StartsWith(line, Str_m)
         THEN LET parts == SplitWs(Drop(line, 2))
              IN IF Len(parts) >= 3
                 THEN [info EXCEPT !.media_type = parts[1], !.media_port = parts[2]]
                 ELSE info
       ELSE IF StartsWith(line, Str_plgroup) THEN [info EXCEPT !.group = Drop(line, 12)]
       ELSE info

RECURSIVE parse_lines(_, _, _)
parse_lines(info, lines, k) ==
    IF k > Len(lines) THEN info
    ELSE parse_lines(parse_line(info, lines[k]), lines, k + 1)

\* A plausible slip: the media port is not required.
derive_stream_url_no_port(info) ==
    IF info.connection # <<>>
    THEN LET conn_parts == SplitWs(info.connection)
         IN IF Len(conn_parts) >= 3
            THEN info @@ [stream_url |->
                     Str_rtp \o SplitOn(conn_parts[3], 47)[1] \o Str_colon \o info.media_port]
            ELSE info
    ELSE info

\* The derivation of 'stream_url' after the loop.
derive_stream_url(info) ==
    IF info.connection # <<>> /\ info.media_port # <<>>
    THEN LET conn_parts == SplitWs(info.connection)
         IN IF Len(conn_parts) >= 3
            THEN info @@ [stream_url |->
                     Str_rtp \o SplitOn(conn_parts[3], 47)[1] \o Str_colon \o info.media_port]
            ELSE info
    ELSE info

\* A plausible slip: the session is returned whether or not it has a name.
sdp_result_unnamed(info) == info

\* The return statement of parse_sdp.
sdp_result(info) == IF info.name # <<>> THEN info ELSE None

parse_sdp(bytes, now) ==
    LET sdp_text == decode_utf8_ignore(bytes)
        lines == SplitOn(Strip(sdp_text), 10)
    IN sdp_result(derive_stream_url(parse_lines(NewSession(now), lines, 1)))

---------------------------------------------------------------------------
(* parse_sap_packet                                                        *)

\* A plausible slip: a mask that loses the top bit of the version.
sap_version_narrow(h0) == ShiftRight(BitAnd(h0, 96), 5)

sap_version(h0) == ShiftRight(BitAnd(h0, 224), 5)
sap_address_type(h0) == ShiftRight(BitAnd(h0, 16), 4)
sap_reserved(h0) == ShiftRight(BitAnd(h0, 8), 3)
sap_message_type(h0) == ShiftRight(BitAnd(h0, 4), 2)
sap_encrypted(h0) == ShiftRight(BitAnd(h0, 2), 1)
sap_compressed(h0) == BitAnd(h0, 1)

\* struct.unpack('!BBH', data[:4])
unpack_header(bytes) == <<bytes[1], bytes[2], bytes[3] * 256 + bytes[4]>>

\* A plausible slip: every MIME type is taken for SDP.
mime_supported_any(mime_type) == TRUE

\* The test that guards the call of parse_sdp.
mime_supported(mime_type) == mime_type = Str_application_sdp \/ mime_type = <<>>

\* The payload split at the MIME terminator, and the hand-over to parse_sdp.
parse_payload(payload, now) ==
    LET mime_type_end == Find(payload, 0)
        mime_type == IF mime_type_end = -1 THEN Str_application_sdp
                     ELSE decode_ascii_ignore(SubSeq(payload, 1, mime_type_end))
        sdp_data == IF mime_type_end = -1 THEN payload
                    ELSE Drop(payload, mime_type_end + 1)
    IN IF mime_supported(mime_type) THEN parse_sdp(sdp_data, now) ELSE None

parse_sap_packet(bytes, now) ==
    IF Len(bytes) < 4 THEN None
    ELSE LET header == unpack_header(bytes)
             auth_len == header[2]
             offset == 8 + auth_len * 4
         IN IF sap_version(header[1]) # 1 THEN None
            ELSE IF sap_compressed(header[1]) # 0 THEN None
            ELSE IF sap_encrypted(header[1]) # 0 THEN None
            ELSE IF Len(bytes) <= offset THEN None
            ELSE parse_payload(Drop(bytes, offset), now)

---------------------------------------------------------------------------
(* The registry self.streams and the loop body of collect_announcements.   *)

\* stream_id in self.streams
HasKey(reg, stream_id) == \E i \in 1..Len(reg) : reg[i].key = stream_id

\* A plausible slip: the membership test is missing, so a later announcement
\* replaces the stored session (a dict keeps the position of an existing key).
register_overwrite(reg, info) ==
    IF info # None /\ "stream_url" \in DOMAIN info
    THEN IF HasKey(reg, info.stream_url)
         THEN [i \in 1..Len(reg) |->
                  IF reg[i].key = info.stream_url
                  THEN [key |-> info.stream_url, info |-> info] ELSE reg[i]]
         ELSE Append(reg, [key |-> info.stream_url, info |-> info])
    ELSE reg

\* if session_info and session_info.get('stream_url'): ... self.streams[stream_id] = ...
register(reg, info) ==
    IF info # None /\ "stream_url" \in DOMAIN info /\ info.stream_url # <<>>
    THEN IF ~HasKey(reg, info.stream_url)
         THEN Append(reg, [key |-> info.stream_url, info |-> info])
         ELSE reg
    ELSE reg

---------------------------------------------------------------------------
(* generate_m3u                                                            *)

\* A plausible slip: the group tag is written for every entry.
m3u_entry_always_grp(stream_url, info) ==
    LET name == IF info.name # <<>> THEN info.name ELSE Str_Unknown
        group_title == IF info.group # <<>> THEN info.group ELSE Str_General
        tvg_id == Replace(Replace(Replace(stream_url, Str_rtp, <<>>),
                                  Str_colon, Str_underscore), Str_slash, Str_underscore)
    IN Str_EXTGRP \o info.group \o Str_nl
         \o Str_EXTINF \o tvg_id \o Str_tvg_name \o name \o Str_group_title
         \o group_title \o Str_quote
         \o (IF info.description # <<>>
             THEN Str_comma \o name \o Str_dash \o info.description
             ELSE Str_comma \o name)
         \o Str_nl \o stream_url \o Str_nl

\* What one pass of the loop over self.streams.items() writes.
m3u_entry(stream_url, info) ==
    LET name == IF info.name # <<>> THEN info.name ELSE Str_Unknown
        description == info.description
        group == info.group
        tvg_id == Replace(Replace(Replace(stream_url, Str_rtp, <<>>),
                                  Str_colon, Str_underscore), Str_slash, Str_underscore)
        tvg_name == name
        group_title == IF group # <<>> THEN group ELSE Str_General
        extinf_line ==
            Str_EXTINF \o tvg_id \o Str_tvg_name \o tvg_name \o Str_group_title
              \o group_title \o Str_quote
              \o (IF description # <<>>
                  THEN Str_comma \o name \o Str_dash \o description
                  ELSE Str_comma \o name)
    IN (IF group # <<>> THEN Str_EXTGRP \o group \o Str_nl ELSE <<>>)
         \o extinf_line \o Str_nl
         \o stream_url \o Str_nl

RECURSIVE m3u_entries(_, _)
m3u_entries(reg, k) ==
    IF k > Len(reg) THEN <<>>
    ELSE m3u_entry(reg[k].key, reg[k].info) \o m3u_entries(reg, k + 1)

\* The text generate_m3u writes for a non-empty registry.
m3u_text(reg) == Str_EXTM3U \o m3u_entries(reg, 1)

---------------------------------------------------------------------------
(* The bounds of the model and the datagrams it receives.                  *)

Duration == 2        \* the duration argument of collect_announcements, in seconds
MaxPackets == 3      \* the datagrams received in one run
MaxLines == 4        \* the lines of an enumerated SDP body
MaxAuthLen == 1      \* the auth_len of an enumerated header

\* The clock is followed until one second past the duration.
MaxClock == Duration + 1

Line_sA == <<115, 61, 65>>  \* b's=A'
Line_sB == <<115, 61, 66>>  \* b's=B'
Line_sC == <<115, 61, 67>>  \* b's=C'
Line_sE == <<115, 61, 69>>  \* b's=E'
Line_s_empty == <<115, 61>>  \* b's='
Line_s_utf8 == <<115, 61, 195, 169, 255>>  \* b's=\xc3\xa9\xff'
Line_iD == <<105, 61, 68>>  \* b'i=D'
Line_uW == <<117, 61, 87>>  \* b'u=W'
Line_c1 == <<99, 61, 73, 78, 32, 73, 80, 52, 32, 49, 46, 49, 47, 51, 50>>  \* b'c=IN IP4 1.1/32'
Line_c2 == <<32, 99, 61, 73, 78, 32, 73, 80, 52, 32, 50, 46, 50, 13>>  \* b' c=IN IP4 2.2\r'
Line_c_short == <<99, 61, 73, 78, 32, 73, 80, 52>>  \* b'c=IN IP4'
Line_c_empty == <<99, 61>>  \* b'c='
Line_m5 == <<109, 61, 118, 32, 53, 32, 82>>  \* b'm=v 5 R'
Line_m6 == <<109, 61, 97, 32, 54, 32, 82, 32, 120>>  \* b'm=a 6 R x'
Line_m_short == <<109, 61, 118, 32, 55>>  \* b'm=v 7'
Line_gN == <<97, 61, 120, 45, 112, 108, 103, 114, 111, 117, 112, 58, 78>>  \* b'a=x-plgroup:N'
Line_v0 == <<118, 61, 48>>  \* b'v=0'
Mime_text == <<116, 101, 120, 116, 47, 112, 108, 97, 105, 110>>  \* b'text/plain'
Mime_ff == <<255>>  \* b'\xff'
Mime_sdp_ff == <<97, 112, 112, 108, 105, 99, 97, 116, 105, 111, 110, 47, 115, 100, 112, 255>>  \* b'application/sdp\xff'
Mime_upper == <<65, 112, 112, 108, 105, 99, 97, 116, 105, 111, 110, 47, 83, 68, 80>>  \* b'Application/SDP'
Origin == <<10, 0, 0, 1>>
AuthBlock == <<1, 2, 3, 4>>

\* The lines joined by '\n'.
RECURSIVE JoinLines(_)
JoinLines(ls) ==
    IF ls = <<>> THEN <<>>
    ELSE IF Len(ls) = 1 THEN ls[1]
    ELSE ls[1] \o Str_nl \o JoinLines(Tail(ls))

RECURSIVE AuthData(_)
AuthData(n) == IF n = 0 THEN <<>> ELSE AuthBlock \o AuthData(n - 1)

\* A datagram: the 4 header bytes, the origin address, auth_len auth blocks, the payload.
Packet(h0, auth_len, payload) ==
    <<h0, auth_len, 18, 52>> \o Origin \o AuthData(auth_len) \o payload

\* A payload with its MIME token and the NUL that ends it.
WithMime(mime, body) == mime \o <<0>> \o body

Body_A == JoinLines(<<Line_sA, Line_c1, Line_m5>>)
Body_B == JoinLines(<<Line_sB, Line_iD, Line_c1, Line_m5, Line_gN>>)
Body_C == JoinLines(<<Line_v0, Line_sC, Line_iD, Line_c2, Line_m6>>)
Body_E == JoinLines(<<Line_sE, Line_uW, Line_c2, Line_m6, Line_gN>>)
Body_unnamed == JoinLines(<<Line_c1, Line_m5>>)
Body_F == JoinLines(<<Line_sA, Line_c1, Line_m6>>)
Body_no_url == JoinLines(<<Line_sA, Line_c_short, Line_m5>>)

\* The datagrams of a run: four announcements of two streams (with and without MIME
\* token, group and description), a third stream, and datagrams the parser or the loop discards.
RunDatagrams ==
    { Packet(32, 0, WithMime(Str_application_sdp, Body_A)),
      Packet(32, 1, WithMime(<<>>, Body_B)),
      Packet(32, 0, Body_C),
      Packet(48, 0, WithMime(Str_application_sdp, Body_E)),
      Packet(36, 0, WithMime(Str_application_sdp, Body_F)),
      Packet(32, 0, WithMime(Str_application_sdp, Body_unnamed)),
      Packet(32, 0, WithMime(Str_application_sdp, Body_no_url)),
      Packet(64, 0, WithMime(Str_application_sdp, Body_C)),
      Packet(32, 0, WithMime(Mime_text, Body_C)),
      <<32, 0, 18>> }

SdpLines ==
    { Line_sA, Line_s_empty, Line_s_utf8, Line_c1, Line_c2, Line_c_short,
      Line_c_empty, Line_m5, Line_m6, Line_m_short }

\* The sequences of at most n lines.
RECURSIVE LineSeqs(_)
LineSeqs(n) ==
    IF n = 0 THEN {<<>>}
    ELSE LineSeqs(n - 1)
           \cup {Append(ls, l) : ls \in {x \in LineSeqs(n - 1) : Len(x) = n - 1}, l \in SdpLines}

MimeTokens == {Str_application_sdp, <<>>, Mime_text, Mime_ff, Mime_sdp_ff, Mime_upper}

\* The datagrams a single pass of the loop is checked on: every first byte and
\* auth_len, with and without MIME token; every MIME token; every prefix of a
\* well-formed datagram; every SDP body of at most MaxLines lines.
ParseDatagrams ==
    {Packet(h0, a, p) : h0 \in 0..255, a \in 0..MaxAuthLen,
                        p \in {WithMime(Str_application_sdp, Body_A), Body_C}}
      \cup {Packet(32, a, WithMime(m, b)) : a \in 0..MaxAuthLen, m \in MimeTokens,
                                            b \in {Body_B, Body_unnamed}}
      \cup {SubSeq(Packet(32, MaxAuthLen, WithMime(<<>>, Body_E)), 1, n) :
                n \in 0..(12 + 4 * MaxAuthLen)}
      \cup {Packet(32, 0, WithMime(Str_application_sdp, JoinLines(ls))) : ls \in LineSeqs(MaxLines)}

---------------------------------------------------------------------------
(* main, setup_socket and collect_announcements                            *)

Init ==
    /\ pc = "main"
    /\ sock = "none"
    /\ streams = <<>>
    /\ packet_count = 0
    /\ elapsed = 0
    /\ data = <<>>
    /\ session_info = None
    /\ recv = "none"
    /\ m3u = "not_called"
    /\ outfile = <<>>
    /\ outcome = "running"

\* setup_socket returns; collect_announcements reads start_time.
SetupSocketOk ==
    /\ pc = "main"
    /\ sock' = "open"
    /\ elapsed' = 0
    /\ pc' = "while"
    /\ UNCHANGED <<streams, packet_count, data, session_info, recv, m3u, outfile, outcome>>

\* socket.socket() raises: nothing was created; main reports the error.
SocketCreateFails ==
    /\ pc = "main"
    /\ pc' = "done"
    /\ outcome' = "Exception:setup_socket"
    /\ UNCHANGED <<sock, streams, packet_count, elapsed, data, session_info, recv, m3u,
                   outfile>>

\* A plausible slip: the error path of main writes the playlist all the same.
SetupSocketFails_generates ==
    /\ pc = "main"
    /\ sock' = "open"
    /\ pc' = "done"
    /\ m3u' = "no_streams"
    /\ outcome' = "Exception:setup_socket"
    /\ UNCHANGED <<streams, packet_count, elapsed, data, session_info, recv, outfile>>

\* bind or the IP_ADD_MEMBERSHIP setsockopt raises after the socket was created:
\* the exception leaves setup_socket and collect_announcements, main reports it.
SetupSocketFails ==
    /\ pc = "main"
    /\ sock' = "open"
    /\ pc' = "done"
    /\ outcome' = "Exception:setup_socket"
    /\ UNCHANGED <<streams, packet_count, elapsed, data, session_info, recv, m3u, outfile>>

\* The while condition holds: recvfrom is called.
WhileEnter ==
    /\ pc = "while"
    /\ elapsed < Duration
    /\ pc' = "recvfrom"
    /\ recv' = "pending"
    /\ UNCHANGED <<sock, streams, packet_count, elapsed, data, session_info, m3u, outfile,
                   outcome>>

\* The while condition fails: self.sock.close(); return self.streams.
WhileExit ==
    /\ pc = "while"
    /\ ~(elapsed < Duration)
    /\ sock' = "closed"
    /\ pc' = "generate"
    /\ UNCHANGED <<streams, packet_count, elapsed, data, session_info, recv, m3u, outfile,
                   outcome>>

\* The try block with recvfrom returning the datagram d.
LoopBody(d) ==
    /\ pc = "recvfrom"
    /\ data' = d
    /\ session_info' = parse_sap_packet(d, elapsed)
    /\ streams' = register(streams, session_info')
    /\ packet_count' = packet_count + 1
    /\ recv' = "data"
    /\ pc' = "while"
    /\ UNCHANGED <<sock, elapsed, m3u, outfile, outcome>>

RecvData ==
    /\ packet_count < MaxPackets
    /\ \E d \in RunDatagrams : LoopBody(d)

\* recvfrom raises socket.timeout after the 1.0 s of settimeout: continue.
RecvTimeout ==
    /\ pc = "recvfrom"
    /\ elapsed' = IF elapsed < MaxClock THEN elapsed + 1 ELSE elapsed
    /\ recv' = "timeout"
    /\ pc' = "while"
    /\ UNCHANGED <<sock, streams, packet_count, data, session_info, m3u, outfile, outcome>>

\* A plausible slip: the handler leaves the loop.
RecvError_breaks ==
    /\ pc = "recvfrom"
    /\ recv' = "error"
    /\ sock' = "closed"
    /\ pc' = "generate"
    /\ UNCHANGED <<streams, packet_count, elapsed, data, session_info, m3u, outfile, outcome>>

\* recvfrom raises another Exception: it is printed and the loop goes on.
RecvError ==
    /\ pc = "recvfrom"
    /\ recv' = "error"
    /\ pc' = "while"
    /\ UNCHANGED <<sock, streams, packet_count, elapsed, data, session_info, m3u, outfile,
                   outcome>>

\* KeyboardInterrupt in the loop: no handler of collect_announcements catches it
\* (it is no Exception), main prints "Interrupted by user" and ends.
Interrupt ==
    /\ pc \in {"while", "recvfrom"}
    /\ pc' = "done"
    /\ outcome' = "KeyboardInterrupt"
    /\ UNCHANGED <<sock, streams, packet_count, elapsed, data, session_info, recv, m3u,
                   outfile>>

\* A second passes while the loop runs.
Tick ==
    /\ pc \in {"while", "recvfrom"}
    /\ elapsed < MaxClock
    /\ elapsed' = elapsed + 1
    /\ UNCHANGED <<pc, sock, streams, packet_count, data, session_info, recv, m3u, outfile,
                   outcome>>

\* generate_m3u, then the listing of main.
GenerateM3u ==
    /\ pc = "generate"
    /\ IF streams = <<>>
       THEN m3u' = "no_streams" /\ outfile' = outfile
       ELSE m3u' = "written" /\ outfile' = m3u_text(streams)
    /\ pc' = "done"
    /\ outcome' = "ok"
    /\ UNCHANGED <<sock, streams, packet_count, elapsed, data, session_info, recv>>

\* open(output_file, 'w') raises: main reports the error.
GenerateFails ==
    /\ pc = "generate"
    /\ streams # <<>>
    /\ m3u' = "failed"
    /\ pc' = "done"
    /\ outcome' = "Exception:open"
    /\ UNCHANGED <<sock, streams, packet_count, elapsed, data, session_info, recv, outfile>>

Next ==
    \/ SetupSocketOk
    \/ SocketCreateFails
    \/ SetupSocketFails
    \/ WhileEnter
    \/ WhileExit
    \/ RecvData
    \/ RecvTimeout
    \/ RecvError
    \/ Interrupt
    \/ Tick
    \/ GenerateM3u
    \/ GenerateFails

Spec == Init /\ [][Next]_vars

\* Every recvfrom returns, the loop is scheduled and the clock advances.
FairSpec ==
    /\ Spec
    /\ WF_vars(Tick)
    /\ WF_vars(WhileEnter)
    /\ WF_vars(WhileExit)
    /\ WF_vars(RecvData \/ RecvTimeout \/ RecvError)

\* One pass of the loop on one datagram, from the state in which the first
\* recvfrom is pending.
InitParse ==
    /\ pc = "recvfrom"
    /\ sock = "open"
    /\ streams = <<>>
    /\ packet_count = 0
    /\ elapsed = 0
    /\ data = <<>>
    /\ session_info = None
    /\ recv = "pending"
    /\ m3u = "not_called"
    /\ outfile = <<>>
    /\ outcome = "running"

RecvParse ==
    /\ packet_count = 0
    /\ \E d \in ParseDatagrams : LoopBody(d)

SpecParse == InitParse /\ [][RecvParse]_vars

---------------------------------------------------------------------------
(* The claims.                                                             *)

InLoop == pc \in {"while", "recvfrom"}

\* C1: the registry is write-once per key and keeps insertion order: no two
\* entries share a key, and every step leaves the entries already stored where
\* they are and as they are, so a new key can only be appended after them and a
\* later announcement of a stored streamURI changes nothing.
C1_RegistryWriteOnce ==
    /\ [](\A i, j \in 1..Len(streams) : i # j => streams[i].key # streams[j].key)
    /\ [][/\ Len(streams) <= Len(streams')
          /\ \A i \in 1..Len(streams) : streams'[i] = streams[i]]_vars

\* A second announcement of a registered streamURI, with another session, was
\* received and the registry still holds the first one alone.
C1_Witness ==
    /\ recv = "data"
    /\ packet_count >= 2
    /\ Len(streams) = 1
    /\ session_info # None
    /\ "stream_url" \in DOMAIN session_info
    /\ session_info.stream_url = streams[1].key
    /\ session_info.name # streams[1].info.name

\* C2: a run interrupted in the collection loop still reaches the playlist
\* step and generates the playlist from the streams registered so far.
C2_InterruptStillGenerates ==
    (pc = "done" /\ outcome = "KeyboardInterrupt")
        => /\ m3u \in {"written", "no_streams"}
           /\ (streams # <<>> => outfile # <<>>)

\* C3: no run ends with the socket created and still open.
C3_SocketClosedAtEnd ==
    (pc = "done" /\ sock # "none") => sock = "closed"

\* The first byte of a datagram announces a version other than 1, compression
\* or encryption.
RejectedHeader(d) ==
    \/ (d[1] \div 32) # 1
    \/ d[1] % 2 = 1
    \/ (d[1] \div 2) % 2 = 1

\* C4: a datagram of at least 4 bytes whose first byte has version # 1,
\* compressed = 1 or encrypted = 1 yields nothing, whatever follows the first
\* byte, and leaves the registry as it was (empty, before the first datagram).
C4_UnsupportedHeaderYieldsNothing ==
    (recv = "data" /\ Len(data) >= 4 /\ RejectedHeader(data))
        => (session_info = None /\ streams = <<>>)

\* A version-5 datagram whose payload is a complete announcement was received.
C4_Witness ==
    /\ recv = "data"
    /\ data = Packet(160, 0, WithMime(Str_application_sdp, Body_A))
    /\ session_info = None

\* The positions at which a whitespace-separated field of s starts.
FieldStarts(s) ==
    {i \in 1..Len(s) : s[i] \notin Whitespace /\ (i = 1 \/ s[i - 1] \in Whitespace)}

\* The third field of s up to its first '/', for s of three fields or more.
ThirdFieldCut(s) ==
    LET a == CHOOSE i \in FieldStarts(s) : Cardinality({j \in FieldStarts(s) : j < i}) = 2
        In(j) == s[j] \notin Whitespace /\ s[j] # 47
        e == CHOOSE k \in (a - 1)..Len(s) :
                 /\ \A j \in a..k : In(j)
                 /\ (k = Len(s) \/ ~In(k + 1))
    IN SubSeq(s, a, e)

\* C5: a session returned by parse_sdp has a streamURI if and only if its
\* connectionInfo and mediaPort are both set and connectionInfo has at least
\* three whitespace-separated fields; the streamURI is then "rtp://", the third
\* field cut at its first '/', ":" and the mediaPort.
C5_StreamUrlIffDerivable ==
    (recv = "data" /\ session_info # None)
        => LET has == "stream_url" \in DOMAIN session_info
               derivable ==
                   /\ session_info.connection # <<>>
                   /\ session_info.media_port # <<>>
                   /\ Cardinality(FieldStarts(session_info.connection)) >= 3
           IN /\ has <=> derivable
              /\ has => session_info.stream_url =
                            Str_rtp \o ThirdFieldCut(session_info.connection)
                                \o Str_colon \o session_info.media_port

\* A session with a streamURI whose connection address carried a '/' suffix,
\* parsed from a body with a short m= line as well.
C5_Witness ==
    /\ recv = "data"
    /\ session_info # None
    /\ "stream_url" \in DOMAIN session_info
    /\ \E i \in 1..Len(session_info.connection) : session_info.connection[i] = 47
    /\ \E i \in 1..(Len(data) - 4) : SubSeq(data, i, i + 4) = Line_m_short

\* The header of d is accepted and d has payload bytes.
AcceptedHeader(d) ==
    /\ Len(d) >= 4
    /\ ~RejectedHeader(d)
    /\ Len(d) > 8 + 4 * d[2]

PayloadOf(d) == SubSeq(d, 9 + 4 * d[2], Len(d))

FirstNul(p) == CHOOSE i \in 1..Len(p) : p[i] = 0 /\ \A j \in 1..(i - 1) : p[j] # 0

\* ASCII decoding that puts U+FFFD for every byte that is no ASCII character.
AsciiReplaced(bs) == [i \in 1..Len(bs) |-> IF bs[i] < 128 THEN bs[i] ELSE 65533]

\* ASCII decoding that leaves out every byte that is no ASCII character.
RECURSIVE AsciiDropped(_)
AsciiDropped(bs) ==
    IF bs = <<>> THEN <<>>
    ELSE IF Head(bs) > 127 THEN AsciiDropped(Tail(bs))
    ELSE <<Head(bs)>> \o AsciiDropped(Tail(bs))

\* The session a payload with a NUL yields when its MIME token decodes to mime.
YieldFor(mime, p, now) ==
    IF mime = Str_application_sdp \/ mime = <<>>
    THEN parse_sdp(SubSeq(p, FirstNul(p) + 1, Len(p)), now)
    ELSE None

\* C6, as claimed: with a NUL in the payload the MIME type is the bytes before
\* the first NUL decoded as ASCII with the non-ASCII bytes replaced, and the rest
\* is parsed as SDP only if that MIME type is application/sdp or empty.
C6_MimeReplaced ==
    (recv = "data" /\ AcceptedHeader(data) /\ \E i \in 1..Len(PayloadOf(data)) : PayloadOf(data)[i] = 0)
        => LET p == PayloadOf(data)
           IN session_info = YieldFor(AsciiReplaced(SubSeq(p, 1, FirstNul(p) - 1)), p, elapsed)

\* C6, amended: the non-ASCII bytes of the MIME token are dropped, not replaced.
C6_MimeDropped ==
    (recv = "data" /\ AcceptedHeader(data) /\ \E i \in 1..Len(PayloadOf(data)) : PayloadOf(data)[i] = 0)
        => LET p == PayloadOf(data)
           IN session_info = YieldFor(AsciiDropped(SubSeq(p, 1, FirstNul(p) - 1)), p, elapsed)

\* A datagram whose MIME token is the single byte 0xFF was parsed as SDP.
C6_Witness ==
    /\ recv = "data"
    /\ AcceptedHeader(data)
    /\ \E i \in 1..Len(PayloadOf(data)) : PayloadOf(data)[i] = 0
    /\ SubSeq(PayloadOf(data), 1, FirstNul(PayloadOf(data)) - 1) = Mime_ff
    /\ session_info # None

\* C7: when socket setup fails the run is over with the error reported, no
\* datagram was received, the registry is empty and generate_m3u was not called.
C7_SetupFailureAborts ==
    outcome = "Exception:setup_socket"
        => /\ pc = "done"
           /\ recv = "none"
           /\ packet_count = 0
           /\ streams = <<>>
           /\ m3u = "not_called"
           /\ outfile = <<>>

\* bind or the multicast join failed after the socket was created.
C7_Witness == outcome = "Exception:setup_socket" /\ sock = "open"

EndsWith(s, t) == Len(s) >= Len(t) /\ SubSeq(s, Len(s) - Len(t) + 1, Len(s)) = t

\* line is the info line of the entry info.
IsInfoLine(line, info) ==
    /\ StartsWith(line, SubSeq(Str_EXTINF, 1, 8))
    /\ EndsWith(line,
           Str_group_title \o (IF info.group = <<>> THEN Str_General ELSE info.group)
             \o Str_quote \o Str_comma
             \o (IF info.description = <<>> THEN info.name
                 ELSE info.name \o Str_dash \o info.description))

\* The lines from position i on are the blocks of the entries k, k + 1, ... of
\* reg, in that order, and nothing else but the empty piece after the last '\n'.
RECURSIVE BlocksFrom(_, _, _, _)
BlocksFrom(lines, i, reg, k) ==
    IF k > Len(reg) THEN i = Len(lines) /\ lines[i] = <<>>
    ELSE LET info == reg[k].info
             n == IF info.group = <<>> THEN 0 ELSE 1
         IN /\ i + n + 1 <= Len(lines)
            /\ (n = 1 => lines[i] = Str_EXTGRP \o info.group)
            /\ IsInfoLine(lines[i + n], info)
            /\ lines[i + n + 1] = reg[k].key
            /\ BlocksFrom(lines, i + n + 2, reg, k + 1)

\* C8: for a non-empty registry generate_m3u writes #EXTM3U and then, entry by
\* entry in insertion order, the #EXTGRP line if and only if the group is
\* non-empty, the info line (group-title the group or General, text after the
\* comma the name or "name - description") and the stream URI; for an empty
\* registry it writes nothing.
C8_PlaylistBlocks ==
    /\ m3u = "written" =>
           /\ streams # <<>>
           /\ LET lines == SplitOn(outfile, 10)
              IN /\ lines[1] = SubSeq(Str_EXTM3U, 1, 7)
                 /\ BlocksFrom(lines, 2, streams, 1)
    /\ m3u = "no_streams" => streams = <<>>
    /\ m3u # "written" => outfile = <<>>
    /\ (pc = "done" /\ outcome = "ok" /\ streams # <<>>) => m3u = "written"

\* A playlist of three entries was written: the first with group and
\* description, another with neither.
C8_Witness ==
    /\ m3u = "written"
    /\ Len(streams) = 3
    /\ streams[1].info.group # <<>>
    /\ streams[1].info.description # <<>>
    /\ \E k \in 2..3 : streams[k].info.group = <<>> /\ streams[k].info.description = <<>>

\* C9: with every recvfrom returning and the clock advancing the loop is left;
\* it is left through the while condition only once the duration has elapsed; a
\* timeout or a receive error keeps the loop going and changes neither the
\* registry nor the packet counter; the counter changes only when a datagram is
\* received, and then by one.
C9_LoopTerminates ==
    /\ InLoop ~> ~InLoop
    /\ [][(pc = "while" /\ pc' = "generate") => elapsed >= Duration]_vars
    /\ [][(recv = "pending" /\ recv' \in {"timeout", "error"})
            => (pc' = "while" /\ streams' = streams /\ packet_count' = packet_count)]_vars
    /\ [][(recv = "pending" /\ recv' = "data") => packet_count' = packet_count + 1]_vars
    /\ [][packet_count' # packet_count => (recv = "pending" /\ recv' = "data")]_vars

\* The loop was left at the end of the duration, the last recvfrom having
\* failed, with a datagram counted before.
C9_Witness ==
    /\ pc = "generate"
    /\ elapsed >= Duration
    /\ recv = "error"
    /\ packet_count = 1

\* C10: every entry of the registry has a non-empty name and a streamURI and is
\* stored under that streamURI; a datagram that yields no session, or a session
\* without streamURI, adds no entry.
C10_RegistryEntriesComplete ==
    /\ [](\A i \in 1..Len(streams) :
              /\ streams[i].info # None
              /\ streams[i].info.name # <<>>
              /\ "stream_url" \in DOMAIN streams[i].info
              /\ streams[i].key = streams[i].info.stream_url)
    /\ [][(recv' = "data" /\ (session_info' = None \/ "stream_url" \notin DOMAIN session_info'))
            => streams' = streams]_vars

\* With one stream registered, an SDP with connection and media lines but no
\* s= line was received and added nothing.
C10_Witness ==
    /\ recv = "data"
    /\ data = Packet(32, 0, WithMime(Str_application_sdp, Body_unnamed))
    /\ session_info = None
    /\ Len(streams) = 1

=============================================================================
